---- MODULE Spec2Model ----
(***************************************************************************)
(* Real-time segmentation engine of the Learning Assistant App:            *)
(* AudioHandler.start_realtime_recording / stop_realtime_recording         *)
(* (backend/handler/audio_handler.py) with its three threads (capture      *)
(* callback, chunk_processor, watchdog) and the control thread of          *)
(* LearningAssistantApp.process_realtime_audio (backend/app.py).           *)
(* The captions of the app (process_chunk and _add_text_smartly) are        *)
(* modelled character by character in the same module.                     *)
(*                                                                         *)
(* Units.  Model time is whole seconds (one Tick = 1 s).  Configured       *)
(* durations are kept in centiseconds (1.5 s = 150) so that 0.9 x duration *)
(* and `elapsed >= duration` stay integer.  Amplitudes are in thousandths, *)
(* so silence_threshold 0.005 is 5.  A time stamp t is kept as its age     *)
(* now - t, saturated where no comparison of the code can tell the         *)
(* difference any more.                                                    *)
(***************************************************************************)
EXTENDS Integers, Sequences, FiniteSets, TLC

\* ------------------------------------------------------------ bounds
MaxStarts == 2      \* calls of start_realtime_recording in one run
MaxFrames == 3      \* frames delivered by the capture stream in one run
MaxToggles == 1     \* changes between quiet and loud input in one run
RingFrames == 10
IdWrap == 4         \* segment numbers wrap here
MaxClampTenths == 15    \* longest chunk duration tried by ClampSpec, in tenths of a second
MaxClampOverlap == 160  \* largest overlap tried by ClampSpec, in centiseconds
MaxChunks == 2      \* calls of process_chunk in one run
MaxWords == 11      \* words of the longest fragment the speech-to-text service returns
TrimSlack == 2
MaxCombineHistory == 4           \* blocks in the history before a call on its own
MaxCombineChunk == 2             \* blocks in the active buffer before that call
MaxCombineOverlap == 13          \* centiseconds
RestartFrames == 6               \* frames delivered over a stop and a second start
MaxSttCalls == 6                 \* calls of transcribe_audio on their own
OddSampleRate == 2205            \* a rate whose 0.03 s block is not a whole number      \* caption lengths tried around the trim threshold and the kept length

\* --------------------------------------------------- program constants
force_process_interval == 3      \* seconds
WatchdogSleep == 2               \* seconds
HistoryCap == 20                 \* frame blocks
TailBlocks == 2                  \* frame blocks kept after a close
silence_threshold == 5           \* thousandths of full scale
AppChunkDuration == 150          \* centiseconds
AppChunkOverlap == 50            \* centiseconds
SampleRate == 1600               \* samples per second (constructor argument), scaled
SizeGuardBlock == 1024           \* samples
QuietAmp == 1                    \* thousandths: a frame of near silence
LoudAmp == 20                    \* thousandths: a frame of speech
ShortFragmentWords == 3          \* `if len(words) <= 3`
OverlapMinWords == 3             \* range(3, ...)
OverlapRangeStop == 10           \* range(..., min(len(words) + 1, 10))
TrimThreshold == 1000            \* characters
TrimKeep == 500
SkipEmptyCount == 3              \* `self.empty_count > 3`
SkipWindow == 5                  \* seconds: `current_time - self.last_transcription_time < 5`
MinFileSize == 1024              \* bytes: `if file_size < 1024`                  \* characters

DefaultChunkDuration == 300      \* centiseconds: the default of the parameter
ChunkDurations == {AppChunkDuration, DefaultChunkDuration}
ChunkOverlaps == {AppChunkOverlap}
Amps == {QuietAmp, LoudAmp}
Sessions == 1..MaxStarts

VARIABLES
    is_recording,        \* self.is_recording
    stream_dur,          \* chunk_duration_seconds of the running stream's callback; 0: no stream
    current_chunk,       \* self.current_chunk: the active buffer
    history_buffer,      \* self.history_buffer
    chunk_ready,         \* self.chunk_ready (Event)
    processing_lock,     \* holder of the current self.processing_lock; 0: free
    last_chunk_age,      \* now - self.last_chunk_time
    last_processed_age,  \* now - self.last_processed_time
    overlap_seconds,     \* self.overlap_seconds, in centiseconds
    pc,                  \* position of each chunk_processor thread
    ct_age,              \* now - current_time of each chunk_processor
    force_process,       \* local force_process of each chunk_processor
    timed_out,           \* the wait of each chunk_processor has reached its timeout
    closed,              \* what the last close of each chunk_processor did
    calls,               \* chunk_callback calls in progress: <<segment, stage>>
    wpc,                 \* position of each watchdog thread
    wsleep,              \* seconds slept by each watchdog
    wstall,              \* the watchdog's round read the clock during a stall
    starts,              \* calls of start_realtime_recording so far
    seq,                 \* number of the last captured frame
    speech,              \* amplitude of the input at present
    toggles,             \* changes of the input so far
    delivered,           \* frames delivered since the last Tick
    appPc,               \* position of process_realtime_audio
    sigs,                \* who set chunk_ready since it was last cleared
    fresh,               \* a frame was appended since the last close
    handed,              \* number of the segment last handed to chunk_callback
    merges,              \* fragments merged so far, counted up to two
    merge_order_ok,      \* every fragment merged was that of the newest segment
    recorded,            \* every block recorded into the history, in order
    stall_age,           \* seconds without emission with a non-empty buffer
    wd_checks,           \* watchdog rounds completed in the present stall
    wd_signals,          \* chunk_ready.set() by the watchdog in the present stall
    requested_overlap,   \* chunk_overlap_seconds as passed to the last start
    emit_age,            \* seconds since the last emitted segment, or since the start
    current_transcription,  \* self.current_transcription, a sequence of characters
    current_translation,    \* self.current_translation, a sequence of characters
    last_chunk,          \* what the last call of process_chunk was given and did
    chunks,              \* calls of process_chunk so far
    first_run,           \* a merge remembered to be run again from the same texts
    combined,            \* a call of _combine_chunks_with_overlap: its arguments and result
    empty_count,         \* Transcriber.empty_count: consecutive calls without a text
    last_transcription_age,  \* seconds since Transcriber.last_transcription_time
    stt_call,            \* the last call of transcribe_audio: what it was given and did
    stt_calls,           \* calls of transcribe_audio made so far
    stt_past,            \* the results of these calls since the last text or reset
    files                \* the segment files that exist (tempfile.mkstemp), by segment

\* the shared state of the AudioHandler
shared == <<is_recording, stream_dur, current_chunk, history_buffer, chunk_ready,
            processing_lock, last_chunk_age, last_processed_age, overlap_seconds>>
\* the chunk_processor threads and the calls they make
procs == <<pc, ct_age, force_process, timed_out, closed, calls>>
\* the watchdog threads
dogs == <<wpc, wsleep, wstall>>
\* the callers and the capture source
env == <<starts, seq, speech, toggles, delivered, appPc>>
\* what the run has done so far
past == <<sigs, fresh, handed, merges, merge_order_ok, recorded, stall_age,
          wd_checks, wd_signals, requested_overlap, emit_age>>

\* the captions of LearningAssistantApp and the calls of process_chunk
texts == <<current_transcription, current_translation, last_chunk, chunks,
           first_run>>

\* calls made on their own
units == <<combined, empty_count, last_transcription_age, stt_call, stt_calls,
           stt_past>>
\* what the session control, the capture callback and the watchdog never touch
others == <<units, files>>

vars == <<shared, procs, dogs, env, past, texts, others>>

\* ------------------------------------------------------------ helpers
Min(a, b) == IF a <= b THEN a ELSE b

\* ages saturate at 2 x force_process_interval: the largest threshold compared
AgeCap == force_process_interval * 2
Aged(a, cap) == IF a < cap THEN a + 1 ELSE cap

\* last_chunk_time is compared with the chunk duration only
ChunkAgeCap == (DefaultChunkDuration + 99) \div 100

\* Python s[-n:]
LastN(s, n) == IF Len(s) > n THEN SubSeq(s, Len(s) - n + 1, Len(s)) ELSE s

\* blocksize of the InputStream: int(sample_rate * 0.03)
BlockSize == (SampleRate * 3) \div 100

\* int(chunk_duration_seconds * self.sample_rate / 1024)
SizeGuard(dur) == (dur * SampleRate) \div (100 * SizeGuardBlock)

\* a faulty variant: the requested overlap is taken as it is
EffectiveOverlapUnclamped(dur, ovl) == ovl
\* min(chunk_overlap_seconds, chunk_duration_seconds * 0.9)
EffectiveOverlap(dur, ovl) == Min(ovl, (dur * 9) \div 10)

NoClose == [kind |-> "none", silent |-> FALSE, fresh |-> FALSE, sigs |-> {},
            seg |-> 0, since_emit |-> 0]

\* no call of process_chunk yet
NoChunk == [stt |-> "none", text |-> <<>>, tl |-> "none", new_translation |-> <<>>,
            before |-> <<<<>>, <<>>>>, trimmed |-> <<<<>>, <<>>>>,
            translated |-> FALSE, displayed |-> FALSE, prev_text |-> <<>>]
NoRun == [ran |-> FALSE]
\* no call of _combine_chunks_with_overlap on its own
NoCombine == [ran |-> FALSE, rate |-> SampleRate]
\* no call of transcribe_audio yet
NoSttCall == [ran |-> FALSE, sent |-> FALSE, skipped |-> FALSE, small |-> FALSE,
              result |-> <<>>]
\* no result yet (or none since reset_state): empties counts the calls that came
\* back with "" after being put to the service or found too small, text_seen says
\* that a text was obtained, text_age is the seconds since the call that got it
NoSttPast == [empties |-> 0, text_seen |-> FALSE, text_age |-> 0]

\* segment numbers, wrapping
NextId(n) == (n % IdWrap) + 1
\* the blocks remembered for comparison with the history: twice its cap
Remembered(blocks) == LastN(blocks, 2 * HistoryCap)

\* ------------------------------------------------- pure functions
\* the reversed(history_buffer) loop of _combine_chunks_with_overlap: blocks are
\* taken from the newest one down until their samples reach overlap_frames
\* (block is len(hist_chunk), the same for every block of a stream)
\* a faulty variant: the loop goes on until the samples exceed overlap_frames
RECURSIVE OverlapPrefixBeyond(_, _, _, _, _)
OverlapPrefixBeyond(history, i, history_frames, overlap_frames, block) ==
    IF i = 0 THEN <<>>
    ELSE IF history_frames + block > overlap_frames THEN <<history[i]>>
    ELSE OverlapPrefixBeyond(history, i - 1, history_frames + block, overlap_frames,
                             block) \o <<history[i]>>

RECURSIVE OverlapPrefix(_, _, _, _, _)
OverlapPrefix(history, i, history_frames, overlap_frames, block) ==
    IF i = 0 THEN <<>>
    ELSE IF history_frames + block >= overlap_frames THEN <<history[i]>>
    ELSE OverlapPrefix(history, i - 1, history_frames + block, overlap_frames, block)
             \o <<history[i]>>

\* blocksize of a stream of the given sample rate: int(sample_rate * 0.03)
BlockSizeAt(rate) == (rate * 3) \div 100

\* _combine_chunks_with_overlap of an AudioHandler made with the given sample
\* rate; overlap_frames = int(overlap_seconds * self.sample_rate)
CombineAtRate(history, chunk, overlap, rate) ==
    IF overlap > 0 /\ history # <<>>
    THEN OverlapPrefix(history, Len(history), 0, (overlap * rate) \div 100,
                       BlockSizeAt(rate)) \o chunk
    ELSE chunk

\* AudioHandler._combine_chunks_with_overlap; overlap in centiseconds
combine_chunks_with_overlap(history, chunk, overlap) ==
    CombineAtRate(history, chunk, overlap, SampleRate)

RECURSIVE SumAbs(_)
SumAbs(chunk_data) ==
    IF chunk_data = <<>> THEN 0
    ELSE Head(chunk_data).amp * BlockSize + SumAbs(Tail(chunk_data))

\* audio_energy < self.silence_threshold, audio_energy = np.mean(np.abs(chunk_audio))
BelowThreshold(chunk_data) ==
    SumAbs(chunk_data) < silence_threshold * (Len(chunk_data) * BlockSize)

\* a faulty variant: the test forgets force_process
IsSilenceIgnoringForce(chunk_data, force) == BelowThreshold(chunk_data)
\* `if audio_energy < self.silence_threshold and not force_process`
IsSilence(chunk_data, force) == BelowThreshold(chunk_data) /\ ~force

\* a faulty variant: the oldest blocks are kept instead of the newest
LimitHistoryOldest(history) ==
    IF Len(history) > HistoryCap THEN SubSeq(history, 1, HistoryCap) ELSE history
\* `if len(self.history_buffer) > 20: self.history_buffer = self.history_buffer[-20:]`
LimitHistory(history) ==
    IF Len(history) > HistoryCap THEN LastN(history, HistoryCap) ELSE history

\* a faulty variant: a silent close empties the active buffer
TailAfterSilenceEmptied(chunk) == <<>>
\* the active buffer after a silent close
TailAfterSilence(chunk) ==
    IF Len(chunk) > TailBlocks THEN LastN(chunk, TailBlocks) ELSE chunk
\* a faulty variant: an emitting close keeps a short buffer whole
TailAfterEmitKept(chunk) == LastN(chunk, TailBlocks)
\* the active buffer after an emitting close
TailAfterEmit(chunk) ==
    IF Len(chunk) > TailBlocks THEN LastN(chunk, TailBlocks) ELSE <<>>

\* the two triggers of audio_callback, for the buffer after the append
Triggers(chunk) ==
    (IF last_chunk_age * 100 >= stream_dur THEN {"timed"} ELSE {})
    \cup (IF Len(chunk) > SizeGuard(stream_dur) THEN {"size"} ELSE {})

\* a faulty variant: chunk_ready.clear() is missing
chunk_ready_kept == chunk_ready
\* chunk_ready.clear()
chunk_ready_clear == FALSE

\* a faulty variant: the event resets itself when a wait on it returns
EventResetByWait(ready) == FALSE
\* chunk_ready after chunk_ready.wait(timeout=0.5) has returned: a
\* threading.Event stays as it is until clear() is called
EventAfterWait(ready) == ready

\* a faulty variant: the buffer is taken to hold frames without a look at it
HasFramesUntested(chunk) == TRUE
\* `len(self.current_chunk) > 0`, the test of the processor before a forced
\* close and inside the lock, and of the watchdog before it signals
HasFrames(chunk) == Len(chunk) > 0

\* a faulty variant: chunk_ready.wait() without a timeout
WaitWithoutTimeout(at) == FALSE
\* chunk_ready.wait(timeout=0.5): the timeout of a processor that is in the wait
\* has passed when the clock has moved
WaitTimedOut(at) == at = "wait"

\* the file of a segment that is never handed to chunk_callback has no number
NoSegment == 0
\* os.remove(path) of the file of segment n
os_remove(existing, n) == existing \ {n}

\* a faulty variant: chunk_callback is started on a worker and the processor goes on
callback_pc_detached == "top"
\* `chunk_callback(temp_path)`: the processor is inside the call until it returns
callback_pc == "callback"

\* ------------------------------------------------- captions (backend/app.py)
\* A text is a sequence of one-character strings.
Whitespace == {" ", "\n"}
UpperCase == {"A", "B"}
SentenceEnd == {".", "!", "?"}

\* str.strip()
RECURSIVE LStrip(_)
LStrip(s) == IF s # <<>> /\ Head(s) \in Whitespace THEN LStrip(Tail(s)) ELSE s
RECURSIVE RStrip(_)
RStrip(s) ==
    IF s # <<>> /\ s[Len(s)] \in Whitespace THEN RStrip(SubSeq(s, 1, Len(s) - 1))
    ELSE s
Strip(s) == RStrip(LStrip(s))

\* the index of the last character of the word that starts at or before i
RECURSIVE WordEnd(_, _)
WordEnd(s, i) ==
    IF i > Len(s) \/ s[i] \in Whitespace THEN i - 1 ELSE WordEnd(s, i + 1)

\* str.split(): the words between runs of whitespace
RECURSIVE Split(_)
Split(s) ==
    IF s = <<>> THEN <<>>
    ELSE IF Head(s) \in Whitespace THEN Split(Tail(s))
    ELSE <<SubSeq(s, 1, WordEnd(s, 1))>>
             \o Split(SubSeq(s, WordEnd(s, 1) + 1, Len(s)))

\* " ".join(words)
RECURSIVE Join(_)
Join(words) ==
    IF words = <<>> THEN <<>>
    ELSE IF Len(words) = 1 THEN words[1]
    ELSE words[1] \o <<" ">> \o Join(Tail(words))

\* words[i:] of Python, i counted from 0
WordsFrom(words, i) == SubSeq(words, i + 1, Len(words))

\* s.endswith(t)
EndsWith(s, t) ==
    Len(t) <= Len(s) /\ SubSeq(s, Len(s) - Len(t) + 1, Len(s)) = t

\* a faulty variant: two words are the longest short fragment
IsShortStrict(words) == Len(words) < ShortFragmentWords
\* `if len(words) <= 3`
IsShort(words) == Len(words) <= ShortFragmentWords

\* range(3, min(len(words) + 1, 10)): the prefix lengths the loop tries
OverlapLengths(words) ==
    OverlapMinWords .. (Min(Len(words) + 1, OverlapRangeStop) - 1)

\* the prefix lengths i for which
\* self.current_transcription.strip().endswith(" ".join(words[:i]))
Matches(transcription, words) ==
    {i \in OverlapLengths(words) :
        EndsWith(Strip(transcription), Join(SubSeq(words, 1, i)))}

\* the loop breaks at the first length that matches
FirstMatch(found) == CHOOSE i \in found : \A j \in found : i <= j

\* a faulty variant: a fragment appended whole never starts a new line
SeparatorOnOneLine(transcription, new_text) == <<" ">>
\* the separator of a fragment appended whole after the overlap search failed
Separator(transcription, new_text) ==
    IF new_text[1] \in UpperCase /\ transcription[Len(transcription)] \in SentenceEnd
    THEN <<"\n">> ELSE <<" ">>

\* the body of _add_text_smartly: the two texts after the merge
MergedTexts(transcription, translation, new_text, new_translation) ==
    IF transcription = <<>> THEN <<new_text, new_translation>>
    ELSE LET words == Split(new_text)
             found == Matches(transcription, words)
         IN IF IsShort(words)
            THEN <<transcription \o <<" ">> \o new_text,
                   translation \o <<" ">> \o new_translation>>
            ELSE IF found # {}
            THEN <<transcription \o <<" ">>
                       \o Join(WordsFrom(words, FirstMatch(found))),
                   translation \o <<" ">> \o new_translation>>
            ELSE <<transcription \o Separator(transcription, new_text) \o new_text,
                   translation \o Separator(transcription, new_text)
                       \o new_translation>>

\* a faulty variant: a fragment equal to the one of the call before is dropped
add_text_unless_repeated(transcription, translation, new_text, new_translation) ==
    IF new_text = last_chunk.text THEN <<transcription, translation>>
    ELSE MergedTexts(transcription, translation, new_text, new_translation)
\* LearningAssistantApp._add_text_smartly(new_text, new_translation)
add_text_smartly(transcription, translation, new_text, new_translation) ==
    MergedTexts(transcription, translation, new_text, new_translation)

\* a faulty variant: the trim starts at the threshold
NeedsTrimAt(transcription) == Len(transcription) >= TrimThreshold
\* `if len(self.current_transcription) > 1000`
NeedsTrim(transcription) == Len(transcription) > TrimThreshold

\* both texts are cut to their last 500 characters
Trimmed(transcription, translation) ==
    IF NeedsTrim(transcription)
    THEN <<LastN(transcription, TrimKeep), LastN(translation, TrimKeep)>>
    ELSE <<transcription, translation>>

\* a faulty variant: the text is tested as it came
HasTextUnstripped(text) == text # <<>>
\* `if text.strip():`
HasText(text) == Strip(text) # <<>>

\* Transcriber.transcribe_audio(path, language, is_realtime=True): the text the
\* service heard, as it came; "" when the service returned none or the call
\* raised (`except Exception: ... return ""`)
transcribe_audio(outcome, heard) ==
    IF outcome \in {"text", "blank"} THEN heard ELSE <<>>

\* a faulty variant: the age of the last text is not looked at
SkipsCallByCount(count, age) == count > SkipEmptyCount
\* `is_realtime and self.empty_count > 3 and (current_time -
\* self.last_transcription_time < 5)`: the call returns "" at once
SkipsCall(count, age) == count > SkipEmptyCount /\ age < SkipWindow

\* the translation service renders a letter by another one and keeps the rest
Foreign(c) ==
    CASE c = "a" -> "x" [] c = "b" -> "y" [] c = "A" -> "X" [] c = "B" -> "Y"
      [] OTHER -> c
Rendered(text) == [i \in 1..Len(text) |-> Foreign(text[i])]

\* Translator.translate_text(text, target, source) of services/translation.py:
\* the service's text, "" when the request raised (`except Exception: ...
\* return ""`)
translate_text(text, outcome) ==
    IF text = <<>> THEN <<>>
    ELSE IF outcome = "ok" THEN Rendered(text) ELSE <<>>

\* ------------------------------------------------------------- Init
\* AudioHandler.__init__ and LearningAssistantApp.__init__: nothing records, no
\* thread exists; the attributes start_realtime_recording creates are empty
BuffersInit ==
    /\ current_chunk = <<>>
    /\ history_buffer = <<>>
    /\ overlap_seconds = 0

IdleInit ==
    /\ is_recording = FALSE
    /\ stream_dur = 0
    /\ chunk_ready = FALSE
    /\ processing_lock = 0
    /\ last_chunk_age = 0
    /\ last_processed_age = 0
    /\ pc = [s \in Sessions |-> "none"]
    /\ ct_age = [s \in Sessions |-> 0]
    /\ force_process = [s \in Sessions |-> FALSE]
    /\ timed_out = [s \in Sessions |-> FALSE]
    /\ closed = [s \in Sessions |-> NoClose]
    /\ calls = {}
    /\ wpc = [s \in Sessions |-> "none"]
    /\ wsleep = [s \in Sessions |-> 0]
    /\ wstall = [s \in Sessions |-> FALSE]
    /\ starts = 0
    /\ seq = 0
    /\ speech = QuietAmp
    /\ toggles = 0
    /\ delivered = 0
    /\ appPc = "menu"
    /\ sigs = {}
    /\ fresh = FALSE
    /\ handed = 0
    /\ merges = 0
    /\ merge_order_ok = TRUE
    /\ recorded = <<>>
    /\ stall_age = 0
    /\ wd_checks = 0
    /\ wd_signals = 0
    /\ requested_overlap = 0
    /\ emit_age = 0

HandlerInit == BuffersInit /\ IdleInit

\* Transcriber.__init__ (and reset_state): no empty result counted, and
\* last_transcription_time = 0, which is longer ago than any time compared
TranscriberInit ==
    /\ empty_count = 0
    /\ last_transcription_age = SkipWindow
    /\ stt_call = NoSttCall
    /\ stt_calls = 0
    /\ stt_past = NoSttPast

\* process_realtime_audio before it starts the session: both captions empty
CaptionsInit ==
    /\ current_transcription = <<>>
    /\ current_translation = <<>>
    /\ last_chunk = NoChunk
    /\ chunks = 0
    /\ first_run = NoRun

Init ==
    /\ HandlerInit
    /\ CaptionsInit
    /\ combined = NoCombine
    /\ TranscriberInit
    /\ files = {}

\* ------------------------------------------------- session control
\* AudioHandler.start_realtime_recording(chunk_callback, dur, ovl): the state is
\* re-created (a new Event, a new Lock that nobody holds, empty buffers), one
\* more chunk_processor and one more watchdog are started.  stream_ok = FALSE:
\* sd.InputStream raises, after the threads were started.
start_realtime_recording(dur, ovl, stream_ok) ==
    /\ starts < MaxStarts
    /\ is_recording' = TRUE
    /\ current_chunk' = <<>>
    /\ chunk_ready' = FALSE
    /\ processing_lock' = 0
    /\ last_chunk_age' = 0
    /\ overlap_seconds' = EffectiveOverlap(dur, ovl)
    /\ history_buffer' = <<>>
    /\ last_processed_age' = 0
    /\ pc' = [pc EXCEPT ![starts + 1] = "top"]
    /\ wpc' = [wpc EXCEPT ![starts + 1] = "top"]
    /\ stream_dur' = IF stream_ok THEN dur ELSE 0
    /\ starts' = starts + 1
    /\ sigs' = {}
    /\ fresh' = FALSE
    /\ recorded' = <<>>
    /\ stall_age' = 0
    /\ wd_checks' = 0
    /\ wd_signals' = 0
    /\ requested_overlap' = ovl
    /\ emit_age' = 0
    /\ UNCHANGED <<ct_age, force_process, timed_out, closed, calls, wsleep, wstall,
                   seq, speech, toggles, delivered, handed, merges,
                   merge_order_ok>>
    /\ UNCHANGED <<texts, others>>

\* a caller of the AudioHandler starts a session when none is recording
StartRealtime(dur, ovl) ==
    /\ appPc = "menu"
    /\ ~is_recording
    /\ start_realtime_recording(dur, ovl, TRUE)
    /\ UNCHANGED appPc

\* the only session of a run
FirstStart(dur, ovl) == starts = 0 /\ StartRealtime(dur, ovl)

\* AudioHandler.stop_realtime_recording: the flag, then stream.stop()/close()
stop_realtime_recording ==
    /\ is_recording' = FALSE
    /\ stream_dur' = 0
    /\ UNCHANGED <<current_chunk, history_buffer, chunk_ready, processing_lock,
                   last_chunk_age, last_processed_age, overlap_seconds>>
    /\ UNCHANGED <<procs, dogs, past>>
    /\ UNCHANGED <<starts, seq, speech, toggles, delivered>>
    /\ UNCHANGED <<texts, others>>

\* a caller of the AudioHandler stops the session it started
StopRealtime ==
    /\ appPc = "menu"
    /\ is_recording
    /\ stop_realtime_recording
    /\ UNCHANGED appPc

\* process_realtime_audio up to its wait loop: start_realtime_recording(
\* process_chunk, chunk_duration_seconds=1.5, chunk_overlap_seconds=0.5)
AppRealtime ==
    /\ appPc = "menu"
    /\ starts = 0
    /\ start_realtime_recording(AppChunkDuration, AppChunkOverlap, TRUE)
    /\ appPc' = "realtime"

\* the same call with the capture source failing: `except Exception` prints,
\* then `finally` reads self.audio_buffer, an attribute nothing ever sets, so
\* AttributeError leaves process_realtime_audio before stop_realtime_recording
AppCaptureFails ==
    /\ appPc = "menu"
    /\ starts = 0
    /\ start_realtime_recording(AppChunkDuration, AppChunkOverlap, FALSE)
    /\ appPc' = "raised"

\* Ctrl+C in the wait loop: `except KeyboardInterrupt: pass`, then the same
\* `finally`, which raises at its first statement
AppInterrupt ==
    /\ appPc = "realtime"
    /\ appPc' = "raised"
    /\ UNCHANGED <<shared, procs, dogs, past>>
    /\ UNCHANGED <<starts, seq, speech, toggles, delivered>>
    /\ UNCHANGED <<texts, others>>

\* ---------------------------------------------------- capture source
\* audio_callback(indata, ...): runs as a whole under processing_lock, so it can
\* start only when the lock is free.  nid numbers the frame, amp is its level,
\* cnt the new count of frames delivered in this second.
audio_callback(nid, amp, cnt) ==
    /\ stream_dur > 0
    /\ is_recording
    /\ processing_lock = 0
    /\ LET chunk == Append(current_chunk, [id |-> nid, amp |-> amp])
           fired == Triggers(chunk)
       IN /\ current_chunk' = chunk
          /\ IF fired # {}
             THEN /\ last_chunk_age' = 0
                  /\ chunk_ready' = TRUE
                  /\ sigs' = sigs \cup fired
             ELSE UNCHANGED <<last_chunk_age, chunk_ready, sigs>>
    /\ seq' = nid
    /\ speech' = amp
    /\ toggles' = IF amp = speech THEN toggles ELSE toggles + 1
    /\ delivered' = cnt
    /\ fresh' = TRUE
    /\ UNCHANGED <<is_recording, stream_dur, history_buffer, processing_lock,
                   last_processed_age, overlap_seconds>>
    /\ UNCHANGED <<procs, dogs, starts, appPc>>
    /\ UNCHANGED <<handed, merges, merge_order_ok, recorded, stall_age,
                   wd_checks, wd_signals, requested_overlap, emit_age>>
    /\ UNCHANGED <<texts, others>>

\* the levels the input can have now: the same as before, or the other one
Levels == {a \in Amps : a = speech \/ toggles < MaxToggles}

\* a frame arrives, at any moment
AudioFrame ==
    /\ seq < MaxFrames
    /\ \E a \in Levels : audio_callback(seq + 1, a, delivered)

Running(s) == pc[s] \notin {"none", "done"}
Watching(s) == wpc[s] \notin {"none", "done"}

\* a step of straight-line code takes far less than the second the clock
\* counts in: a thread that can take such a step takes it before the clock
\* moves.  Time passes in wait(timeout=0.5), in sleep(2.0), in the
\* collaborator calls of chunk_callback and while a thread waits for the lock.
ProcReady(s) ==
    \/ pc[s] \in {"top", "check"}
    \/ pc[s] = "wait" /\ (chunk_ready \/ timed_out[s])
    \/ pc[s] = "lock" /\ processing_lock = 0
WdReady(s) ==
    \/ wpc[s] = "top"
    \/ wpc[s] = "sleep" /\ wsleep[s] >= WatchdogSleep
    \/ wpc[s] = "lock" /\ processing_lock = 0

\* one second passes: every time.time() read later is one larger
Advance ==
    /\ \E s \in Sessions : Running(s) \/ Watching(s)
    /\ last_chunk_age' = Aged(last_chunk_age, ChunkAgeCap)
    /\ last_processed_age' = Aged(last_processed_age, AgeCap)
    /\ ct_age' = [s \in Sessions |->
                    IF pc[s] \in {"check", "lock"} THEN Aged(ct_age[s], AgeCap)
                    ELSE ct_age[s]]
    /\ timed_out' = [s \in Sessions |-> WaitTimedOut(pc[s])]
    /\ wsleep' = [s \in Sessions |->
                    IF wpc[s] = "sleep" THEN Aged(wsleep[s], WatchdogSleep)
                    ELSE wsleep[s]]
    /\ stall_age' = IF is_recording /\ current_chunk # <<>>
                    THEN Aged(stall_age, AgeCap) ELSE stall_age
    /\ emit_age' = Aged(emit_age, AgeCap)
    /\ delivered' = 0
    /\ UNCHANGED <<is_recording, stream_dur, current_chunk, history_buffer,
                   chunk_ready, processing_lock, overlap_seconds>>
    /\ UNCHANGED <<pc, force_process, closed, calls, wpc, wstall>>
    /\ UNCHANGED <<starts, seq, speech, toggles, appPc>>
    /\ UNCHANGED <<sigs, fresh, handed, merges, merge_order_ok, recorded,
                   wd_checks, wd_signals, requested_overlap>>
    /\ UNCHANGED <<texts, others>>

\* the clock of a run whose threads are scheduled as soon as they can run
Tick ==
    /\ \A s \in Sessions : ~ProcReady(s) /\ ~WdReady(s)
    /\ Advance

\* ------------------------------------------------- chunk_processor
\* `while self.is_recording:`
ProcLoop(s) ==
    /\ pc[s] = "top"
    /\ pc' = [pc EXCEPT ![s] = IF is_recording THEN "wait" ELSE "done"]
    /\ ct_age' = [ct_age EXCEPT ![s] = 0]
    /\ force_process' = [force_process EXCEPT ![s] = FALSE]
    /\ timed_out' = [timed_out EXCEPT ![s] = FALSE]
    /\ closed' = [closed EXCEPT ![s] = NoClose]
    /\ UNCHANGED <<shared, calls, dogs, env, past>>
    /\ UNCHANGED <<texts, others>>

\* chunk_ready.wait(timeout=0.5) returns: at once when the event is set, else
\* at the timeout, which the next second has passed; current_time = time.time();
\* force_process = current_time - last_processed_time >= force_process_interval
ProcWake(s) ==
    /\ pc[s] = "wait"
    /\ chunk_ready \/ timed_out[s]
    /\ pc' = [pc EXCEPT ![s] = "check"]
    /\ ct_age' = [ct_age EXCEPT ![s] = 0]
    /\ timed_out' = [timed_out EXCEPT ![s] = FALSE]
    /\ force_process' = [force_process EXCEPT
                           ![s] = last_processed_age >= force_process_interval]
    /\ chunk_ready' = EventAfterWait(chunk_ready)
    /\ sigs' = IF chunk_ready' THEN sigs ELSE {}
    /\ UNCHANGED <<is_recording, stream_dur, current_chunk, history_buffer,
                   processing_lock, last_chunk_age, last_processed_age,
                   overlap_seconds>>
    /\ UNCHANGED <<fresh, handed, merges, merge_order_ok, recorded, stall_age,
                   wd_checks, wd_signals, requested_overlap, emit_age>>
    /\ UNCHANGED <<closed, calls, dogs, env>>
    /\ UNCHANGED <<texts, others>>

\* `if self.chunk_ready.is_set() or (force_process and len(self.current_chunk) > 0)`
\* read without the lock
ProcCheck(s) ==
    /\ pc[s] = "check"
    /\ pc' = [pc EXCEPT ![s] =
                IF chunk_ready \/ (force_process[s] /\ HasFrames(current_chunk))
                THEN "lock" ELSE "top"]
    /\ UNCHANGED <<shared, ct_age, force_process, timed_out, closed, calls, dogs,
                   env, past>>
    /\ UNCHANGED <<texts, others>>

\* `with self.processing_lock:` from chunk_ready.clear() to the discard of a
\* silent segment (`continue` leaves the with block) or to the call of
\* chunk_callback, which is made with the lock still held
ProcClose(s) ==
    /\ pc[s] = "lock"
    /\ processing_lock = 0
    /\ chunk_ready' = chunk_ready_clear
    /\ sigs' = IF chunk_ready' THEN sigs ELSE {}
    /\ IF ~HasFrames(current_chunk)
       THEN /\ pc' = [pc EXCEPT ![s] = "top"]
            /\ UNCHANGED <<current_chunk, history_buffer, processing_lock,
                           last_processed_age, closed, calls, fresh, handed,
                           recorded, stall_age, wd_checks, wd_signals,
                           emit_age, files>>
       ELSE LET chunk_data == combine_chunks_with_overlap(
                                  history_buffer, current_chunk, overlap_seconds)
                extended == history_buffer \o current_chunk
                done == [kind |-> "emit", silent |-> BelowThreshold(chunk_data),
                         fresh |-> fresh, sigs |-> sigs, seg |-> NextId(handed),
                         since_emit |-> emit_age]
            IN /\ last_processed_age' = ct_age[s]
               /\ fresh' = FALSE
               /\ IF IsSilence(chunk_data, force_process[s])
                  THEN /\ current_chunk' = TailAfterSilence(current_chunk)
                       /\ pc' = [pc EXCEPT ![s] = "top"]
                       /\ closed' = [closed EXCEPT
                                       ![s] = [done EXCEPT !.kind = "discard",
                                                           !.seg = 0]]
                       /\ files' = os_remove(files \cup {NoSegment}, NoSegment)
                       /\ UNCHANGED <<history_buffer, processing_lock, calls,
                                      handed, recorded, stall_age, wd_checks,
                                      wd_signals, emit_age>>
                  ELSE /\ history_buffer' = LimitHistory(extended)
                       /\ recorded' = Remembered(recorded \o current_chunk)
                       /\ current_chunk' = TailAfterEmit(current_chunk)
                       /\ pc' = [pc EXCEPT ![s] = callback_pc]
                       /\ processing_lock' = IF callback_pc = "callback" THEN s ELSE 0
                       /\ closed' = [closed EXCEPT ![s] = done]
                       /\ calls' = calls \cup {<<NextId(handed), "stt">>}
                       /\ files' = files \cup {NextId(handed)}
                       /\ handed' = NextId(handed)
                       /\ stall_age' = 0
                       /\ wd_checks' = 0
                       /\ wd_signals' = 0
                       /\ emit_age' = 0
    /\ UNCHANGED <<is_recording, stream_dur, last_chunk_age, overlap_seconds,
                   ct_age, force_process, timed_out, dogs, env, merges,
                   merge_order_ok, requested_overlap>>
    /\ UNCHANGED <<texts, units>>

\* process_chunk of segment n: the speech-to-text and translation calls have
\* returned a non-empty text; it is merged under display_lock (_add_text_smartly)
CallbackMerge(n) ==
    /\ <<n, "stt">> \in calls
    /\ calls' = (calls \ {<<n, "stt">>}) \cup {<<n, "merged">>}
    /\ merges' = Min(merges + 1, 2)
    /\ merge_order_ok' = (merge_order_ok /\ n = handed)
    /\ UNCHANGED <<shared, pc, ct_age, force_process, timed_out, closed, dogs, env,
                   sigs, fresh, handed, recorded, stall_age, wd_checks, wd_signals,
                   requested_overlap, emit_age>>
    /\ UNCHANGED <<texts, others>>

\* chunk_callback of segment n returns (after a merge, or with nothing to merge)
\* or raises; the processor that made the call leaves the with block, which
\* releases the lock it took
CallbackReturn(n) ==
    /\ \E st \in {"stt", "merged"} : <<n, st>> \in calls
    /\ calls' = {c \in calls : c[1] # n}
    /\ files' = os_remove(files, n)
    /\ LET caller == {s \in Sessions : pc[s] = "callback" /\ closed[s].seg = n}
       IN /\ pc' = [s \in Sessions |-> IF s \in caller THEN "top" ELSE pc[s]]
          /\ processing_lock' = IF processing_lock \in caller THEN 0
                                ELSE processing_lock
    /\ UNCHANGED <<is_recording, stream_dur, current_chunk, history_buffer,
                   chunk_ready, last_chunk_age, last_processed_age,
                   overlap_seconds, ct_age, force_process, timed_out, closed, dogs,
                   env, past>>
    /\ UNCHANGED <<texts, units>>

\* ------------------------------------------------------- watchdog
\* `while self.is_recording:` and the start of time.sleep(2.0)
WdLoop(s) ==
    /\ wpc[s] = "top"
    /\ wpc' = [wpc EXCEPT ![s] = IF is_recording THEN "sleep" ELSE "done"]
    /\ wsleep' = [wsleep EXCEPT ![s] = 0]
    /\ wd_checks' = IF wstall[s] /\ wd_checks < 2 THEN wd_checks + 1 ELSE wd_checks
    /\ wstall' = [wstall EXCEPT ![s] = FALSE]
    /\ UNCHANGED <<shared, procs, env, sigs, fresh, handed, merges,
                   merge_order_ok, recorded, stall_age, wd_signals,
                   requested_overlap, emit_age>>
    /\ UNCHANGED <<texts, others>>

\* the sleep is over; `if current_time - self.last_processed_time >=
\* self.force_process_interval * 2`
WdWake(s) ==
    /\ wpc[s] = "sleep"
    /\ wsleep[s] >= WatchdogSleep
    /\ wpc' = [wpc EXCEPT ![s] =
                 IF last_processed_age >= force_process_interval * 2
                 THEN "lock" ELSE "top"]
    /\ wstall' = [wstall EXCEPT ![s] = is_recording /\ current_chunk # <<>>
                                        /\ stall_age >= force_process_interval * 2]
    /\ UNCHANGED <<shared, procs, wsleep, env, past>>
    /\ UNCHANGED <<texts, others>>

\* `with self.processing_lock: if len(self.current_chunk) > 0: self.chunk_ready.set()`
WdSignal(s) ==
    /\ wpc[s] = "lock"
    /\ processing_lock = 0
    /\ wpc' = [wpc EXCEPT ![s] = "top"]
    /\ IF HasFrames(current_chunk)
       THEN /\ chunk_ready' = TRUE
            /\ sigs' = sigs \cup {"watchdog"}
            /\ wd_signals' = IF wd_signals < 2 THEN wd_signals + 1 ELSE wd_signals
       ELSE UNCHANGED <<chunk_ready, sigs, wd_signals>>
    /\ UNCHANGED <<is_recording, stream_dur, current_chunk, history_buffer,
                   processing_lock, last_chunk_age, last_processed_age,
                   overlap_seconds, procs, wsleep, wstall, env, fresh, handed,
                   merges, merge_order_ok, recorded, stall_age, wd_checks,
                   requested_overlap, emit_age>>
    /\ UNCHANGED <<texts, others>>

\* ------------------------------------------------- specifications
Segments == 1..IdWrap

\* the three threads and the calls, in every specification
Threads ==
    \/ \E s \in Sessions : ProcLoop(s)
    \/ \E s \in Sessions : ProcWake(s)
    \/ \E s \in Sessions : ProcCheck(s)
    \/ \E s \in Sessions : ProcClose(s)
    \/ \E n \in Segments : CallbackMerge(n)
    \/ \E n \in Segments : CallbackReturn(n)
    \/ \E s \in Sessions : WdLoop(s)
    \/ \E s \in Sessions : WdWake(s)
    \/ \E s \in Sessions : WdSignal(s)

\* one session of a caller of the AudioHandler, started once and stopped
Next ==
    \/ \E dur \in ChunkDurations, ovl \in ChunkOverlaps : FirstStart(dur, ovl)
    \/ StopRealtime
    \/ AudioFrame
    \/ Tick
    \/ Threads

Spec == Init /\ [][Next]_vars

\* the same session with threads that are scheduled, a clock that moves and
\* collaborator calls that return
StopSpec ==
    /\ Init /\ [][Next]_vars
    /\ WF_vars(Tick)
    /\ WF_vars(Threads)
    /\ WF_vars(\E n \in Segments : CallbackReturn(n))

\* LearningAssistantApp.process_realtime_audio drives the AudioHandler
AppNext ==
    \/ AppRealtime
    \/ AppCaptureFails
    \/ AppInterrupt
    \/ AudioFrame
    \/ Tick
    \/ Threads

AppSpec == Init /\ [][AppNext]_vars

\* any sequence of start_realtime_recording and stop_realtime_recording calls on
\* one AudioHandler, within the first second after the first call: no wait has
\* reached its timeout and every watchdog is in its first sleep
LifecycleNext ==
    \/ \E dur \in ChunkDurations, ovl \in ChunkOverlaps : StartRealtime(dur, ovl)
    \/ StopRealtime
    \/ AudioFrame
    \/ \E s \in Sessions : ProcLoop(s)
    \/ \E s \in Sessions : ProcWake(s)
    \/ \E s \in Sessions : ProcCheck(s)
    \/ \E s \in Sessions : ProcClose(s)
    \/ \E n \in Segments : CallbackMerge(n)
    \/ \E n \in Segments : CallbackReturn(n)
    \/ \E s \in Sessions : WdLoop(s)

LifecycleSpec == Init /\ [][LifecycleNext]_vars

\* the app's session stopped and started again while loud frames keep arriving,
\* within the first second after the first start: enough frames for a segment
\* of the first session and one of the second
RestartFrame ==
    /\ seq < RestartFrames
    /\ audio_callback(seq + 1, LoudAmp, delivered)

RestartNext ==
    \/ StartRealtime(AppChunkDuration, AppChunkOverlap)
    \/ StopRealtime
    \/ RestartFrame
    \/ \E s \in Sessions : ProcLoop(s)
    \/ \E s \in Sessions : ProcWake(s)
    \/ \E s \in Sessions : ProcCheck(s)
    \/ \E s \in Sessions : ProcClose(s)
    \/ \E n \in Segments : CallbackMerge(n)
    \/ \E n \in Segments : CallbackReturn(n)
    \/ \E s \in Sessions : WdLoop(s)

RestartSpec == Init /\ [][RestartNext]_vars

\* a burst of frames in the first second of a session
RingFrame ==
    /\ seq < RingFrames
    /\ \E a \in Levels : audio_callback(seq + 1, a, delivered)

RingNext ==
    \/ \E dur \in ChunkDurations, ovl \in ChunkOverlaps : FirstStart(dur, ovl)
    \/ RingFrame
    \/ \E s \in Sessions : ProcLoop(s)
    \/ \E s \in Sessions : ProcWake(s)
    \/ \E s \in Sessions : ProcCheck(s)
    \/ \E s \in Sessions : ProcClose(s)
    \/ \E n \in Segments : CallbackMerge(n)
    \/ \E n \in Segments : CallbackReturn(n)
    \/ \E s \in Sessions : WdLoop(s)

RingSpec == Init /\ [][RingNext]_vars

\* a live session that is never stopped: one quiet frame arrives in every second
\* (as soon as the lock lets the capture callback in), threads run as soon as
\* they can, every collaborator call returns.  The frames of this session are
\* not numbered (0).
LiveFrame ==
    /\ delivered = 0
    /\ audio_callback(0, QuietAmp, 1)

LiveTick ==
    /\ delivered > 0 \/ processing_lock # 0
    /\ Tick

LiveStart == \E dur \in ChunkDurations, ovl \in ChunkOverlaps : FirstStart(dur, ovl)

CallbackReturns == \E n \in Segments : CallbackReturn(n)

LiveNext ==
    \/ LiveStart
    \/ LiveFrame
    \/ LiveTick
    \/ Threads

LiveSpec ==
    /\ Init
    /\ [][LiveNext]_vars
    /\ WF_vars(LiveStart)
    /\ WF_vars(LiveFrame)
    /\ WF_vars(LiveTick)
    /\ WF_vars(Threads)
    /\ WF_vars(CallbackReturns)

\* start_realtime_recording called once with any duration that is a whole number
\* of tenths of a second (0.9 x duration is then a whole number of
\* centiseconds) and any overlap, also one longer than the duration
ClampDurations == {10 * k : k \in 1..MaxClampTenths}
ClampOverlaps == 0..MaxClampOverlap

ClampStart == \E dur \in ClampDurations, ovl \in ClampOverlaps : FirstStart(dur, ovl)

ClampSpec == Init /\ [][ClampStart]_vars

\* ------------------------------------------------- process_chunk
\* process_chunk(audio_chunk_path), the chunk_callback of the app, as one step:
\* transcribe_audio, `if text.strip():` translate_text, then under display_lock
\* the trim and _add_text_smartly, then display_live_caption.  stt and tl are
\* what the two services do this time, heard is the text the first one returns.
process_chunk(stt, heard, tl) ==
    /\ chunks < MaxChunks
    /\ ~first_run.ran
    /\ LET text == transcribe_audio(stt, heard)
           translation == translate_text(text, tl)
           cut == Trimmed(current_transcription, current_translation)
           merged == add_text_smartly(cut[1], cut[2], text, translation)
           call == [stt |-> stt, text |-> text, tl |-> tl,
                    new_translation |-> translation,
                    before |-> <<current_transcription, current_translation>>,
                    trimmed |-> cut, translated |-> TRUE, displayed |-> TRUE,
                    prev_text |-> last_chunk.text]
       IN IF HasText(text)
          THEN /\ current_transcription' = merged[1]
               /\ current_translation' = merged[2]
               /\ last_chunk' = call
          ELSE /\ UNCHANGED <<current_transcription, current_translation>>
               /\ last_chunk' = [call EXCEPT !.new_translation = <<>>,
                                             !.trimmed = call.before,
                                             !.translated = FALSE,
                                             !.displayed = FALSE]
    /\ chunks' = chunks + 1
    /\ UNCHANGED first_run
    /\ UNCHANGED <<shared, procs, dogs, env, past, others>>

\* _add_text_smartly run a second time from the two texts the last merge
\* started from, with the same fragment and the same translated fragment
RunAgain ==
    /\ last_chunk.translated
    /\ ~first_run.ran
    /\ LET again == add_text_smartly(last_chunk.trimmed[1], last_chunk.trimmed[2],
                                     last_chunk.text, last_chunk.new_translation)
       IN /\ current_transcription' = again[1]
          /\ current_translation' = again[2]
    /\ first_run' = [ran |-> TRUE,
                     result |-> <<current_transcription, current_translation>>]
    /\ UNCHANGED <<last_chunk, chunks>>
    /\ UNCHANGED <<shared, procs, dogs, env, past, others>>

\* n times the one-letter word c
Repeated(c, n) == [i \in 1..n |-> <<c>>]

\* a sentence of four words: a capital letter first or not, a full stop last or
\* not
Sentence(capital, stop) ==
    <<IF capital THEN <<"A">> ELSE <<"a">>, <<"a">>, <<"a">>,
      IF stop THEN <<"a", ".">> ELSE <<"a">>>>

\* the phrases the speech-to-text service returns: a word said up to MaxWords
\* times, one word said several times and then another, or a sentence
Phrases ==
    {Repeated("a", n) : n \in 1..MaxWords}
    \cup {Repeated("b", n) : n \in 1..MaxWords}
    \cup {Repeated("a", n \div 2) \o Repeated("b", n - (n \div 2)) : n \in 2..MaxWords}
    \cup {Sentence(capital, stop) : capital, stop \in BOOLEAN}

\* what transcribe_audio can come back with
SttOutcomes == {"text", "blank", "empty", "error"}
Heard(stt) ==
    IF stt = "text" THEN {Join(p) : p \in Phrases}
    ELSE IF stt = "blank" THEN {<<" ">>}
    ELSE {<<>>}
\* what translate_text can do with a text; it is not called for a blank one
TlOutcomes(text) == IF Strip(text) # <<>> THEN {"ok", "error"} ELSE {"none"}

ProcessChunk ==
    \E stt \in SttOutcomes : \E heard \in Heard(stt) : \E tl \in TlOutcomes(heard) :
        process_chunk(stt, heard, tl)

\* the calls of process_chunk of one session, one after the other (the
\* chunk_processor makes them one at a time)
MergeNext ==
    \/ ProcessChunk
    \/ RunAgain

MergeSpec == Init /\ [][MergeNext]_vars

\* a caption of n characters after many merges: one-letter words, "a" in its
\* first half and "b" in its second
Caption(n) ==
    [i \in 1..n |-> IF i % 2 = 0 THEN " " ELSE IF 2 * i <= n THEN "a" ELSE "b"]

\* lengths of the transcription around the trim threshold, and lengths of the
\* translation: empty, around the kept length, around the threshold
TranscriptionLengths == (TrimThreshold - TrimSlack) .. (TrimThreshold + TrimSlack)
TranslationLengths ==
    {0} \cup ((TrimKeep - TrimSlack) .. (TrimKeep + TrimSlack))
        \cup TranscriptionLengths

\* a session that has run for long: the captions have grown by merges
TrimInit ==
    /\ HandlerInit
    /\ current_transcription \in {Caption(n) : n \in TranscriptionLengths}
    /\ current_translation \in {Rendered(Caption(n)) : n \in TranslationLengths}
    /\ last_chunk = NoChunk
    /\ chunks = 0
    /\ first_run = NoRun
    /\ combined = NoCombine
    /\ TranscriberInit
    /\ files = {}

\* the next call of process_chunk in that session
TrimNext == chunks = 0 /\ ProcessChunk

TrimSpec == TrimInit /\ [][TrimNext]_vars

\* ------------------------------------------------- _combine_chunks_with_overlap
\* the method called on its own, on a handler made with one of two sample rates
\* and holding some history and some active buffer
CombineRates == {SampleRate, OddSampleRate}
Blocks(first, n) == [i \in 1..n |-> [id |-> first + i - 1, amp |-> QuietAmp]]

CombineInit ==
    /\ IdleInit
    /\ CaptionsInit
    /\ \E h \in 0..MaxCombineHistory, c \in 0..MaxCombineChunk :
           /\ history_buffer = Blocks(1, h)
           /\ current_chunk = Blocks(h + 1, c)
    /\ overlap_seconds \in 0..MaxCombineOverlap
    /\ \E r \in CombineRates : combined = [ran |-> FALSE, rate |-> r]
    /\ TranscriberInit
    /\ files = {}

\* combined = self._combine_chunks_with_overlap(); the buffers are written back
\* as the call leaves them
Combine ==
    /\ ~combined.ran
    /\ combined' = [ran |-> TRUE, rate |-> combined.rate,
                    history |-> history_buffer, chunk |-> current_chunk,
                    out |-> CombineAtRate(history_buffer, current_chunk,
                                          overlap_seconds, combined.rate)]
    /\ UNCHANGED <<empty_count, last_transcription_age, stt_call, stt_calls,
                   stt_past, files>>
    /\ UNCHANGED <<shared, procs, dogs, env, past, texts>>

CombineSpec == CombineInit /\ [][Combine]_vars

\* ------------------------------------------------- Transcriber
\* transcribe_audio(path, language, is_realtime=True) called on its own, as one
\* step: file_size is the size of the segment file, outcome and heard what the
\* service does if it is asked.  current_time is read when the call starts.
TranscribeRealtime(file_size, outcome, heard) ==
    /\ stt_calls < MaxSttCalls
    /\ stt_calls' = stt_calls + 1
    /\ LET skipped == SkipsCall(empty_count, last_transcription_age)
           small == ~skipped /\ file_size < MinFileSize
           sent == ~skipped /\ ~small
           result == IF sent THEN transcribe_audio(outcome, heard) ELSE <<>>
       IN /\ IF skipped THEN UNCHANGED <<empty_count, last_transcription_age>>
             ELSE IF sent /\ HasText(result)
             THEN empty_count' = 0 /\ last_transcription_age' = 0
             ELSE empty_count' = empty_count + 1 /\ UNCHANGED last_transcription_age
          /\ stt_call' = [ran |-> TRUE, sent |-> sent, skipped |-> skipped,
                          small |-> small, result |-> result,
                          past |-> stt_past, count_before |-> empty_count,
                          count_after |-> empty_count']
          /\ stt_past' = IF skipped THEN stt_past
                         ELSE IF sent /\ HasText(result)
                         THEN [empties |-> 0, text_seen |-> TRUE, text_age |-> 0]
                         ELSE [stt_past EXCEPT !.empties = @ + 1]
    /\ UNCHANGED <<shared, procs, dogs, env, past, texts, combined, files>>

\* a second passes between two calls
TranscriberTick ==
    /\ stt_calls < MaxSttCalls
    /\ last_transcription_age < SkipWindow
    /\ last_transcription_age' = last_transcription_age + 1
    /\ stt_past' = [stt_past EXCEPT
                      !.text_age = IF stt_past.text_seen THEN Min(@ + 1, SkipWindow)
                                   ELSE @]
    /\ UNCHANGED <<empty_count, stt_call, stt_calls>>
    /\ UNCHANGED <<shared, procs, dogs, env, past, texts, combined, files>>

\* Transcriber.reset_state, called when a real-time session begins
reset_state ==
    /\ stt_calls < MaxSttCalls
    /\ stt_calls > 0
    /\ empty_count' = 0
    /\ last_transcription_age' = SkipWindow
    /\ stt_past' = NoSttPast
    /\ UNCHANGED <<stt_call, stt_calls>>
    /\ UNCHANGED <<shared, procs, dogs, env, past, texts, combined, files>>

\* sizes of segment files, the services' outcomes and a text heard
FileSizes == {MinFileSize - 1, MinFileSize}
SttTexts == {Join(Repeated("a", 1))}
TranscribeCall ==
    \E file_size \in FileSizes, outcome \in SttOutcomes :
        \E heard \in (IF outcome = "text" THEN SttTexts ELSE Heard(outcome)) :
            TranscribeRealtime(file_size, outcome, heard)

TranscriberNext == TranscribeCall \/ TranscriberTick \/ reset_state

TranscriberSpec == Init /\ [][TranscriberNext]_vars

\* ------------------------------------------------------------ claims
\* C1: in a live session that is never stopped, with a frame in every second
\* and every segment below the silence threshold, the processor hands a forced
\* segment to chunk_callback again and again, whatever the chunk duration.
\* Stated under LiveSpec; the session started with the 1.5 s duration of the
\* app closes and discards a segment before force_process can become true,
\* each discard moving last_processed_time.
C1_ForcedSegmentsKeepComing ==
    []<>(\E s \in Sessions : pc[s] = "callback" /\ force_process[s])

\* C2: at every close of a non-empty active buffer, a segment below the
\* threshold whose close is not forced is not handed to chunk_callback, and a
\* forced close always hands its segment to chunk_callback.
C2_SilenceSuppressedUnlessForced ==
    \A s \in Sessions :
        closed[s].kind # "none" =>
            /\ (closed[s].silent /\ ~force_process[s]) => closed[s].kind = "discard"
            /\ force_process[s] => closed[s].kind = "emit"

\* C2 happens: a forced close handed a segment below the threshold
C2_ForcedSilentEmitted ==
    \E s \in Sessions :
        /\ closed[s].kind = "emit" /\ closed[s].silent /\ force_process[s]
        /\ pc[s] = "callback"

\* C3: while chunk_callback is in progress for an emitted segment, the capture
\* callback can take the lock and append a frame without waiting for the call.
C3_CaptureNeverWaitsForCall ==
    \A s \in Sessions : pc[s] = "callback" => processing_lock = 0

\* a timed or size-guard boundary fires in the capture callback of a live session
RegularBoundary == delivered' > delivered /\ Triggers(current_chunk') # {}

\* C4: when a regular boundary fires in a stall (no emission for 2 x the
\* forced-flush interval or more, active buffer non-empty) in which the
\* watchdog has completed a round, the watchdog has raised exactly one flush.
C4_OneWatchdogFlushPerStall ==
    [][RegularBoundary => (wd_checks >= 1 => wd_signals = 1)]_vars

C6_OneProcessorAtATime ==
    Cardinality({s \in Sessions : pc[s] \in {"wait", "check", "lock", "callback"}}) <= 1

\* C7: fragments are merged in the order in which their segments were handed
\* to chunk_callback: a fragment is merged while its segment is still the
\* newest one, and no call for an older segment is in progress.
C7_MergedInEmissionOrder ==
    /\ merge_order_ok
    /\ \A c \in calls : c[1] = handed

\* C7 happens: the fragments of two segments were merged, one after the other
C7_TwoFragmentsMerged ==
    merges = 2 /\ <<handed, "merged">> \in calls

\* C8: once is_recording is False no further segment is handed to chunk_callback.
C8_NoSegmentAfterStop ==
    [][~is_recording => handed' = handed]_vars

\* C9: when process_realtime_audio has ended (capture failure or interrupt),
\* stop_realtime_recording has been called: is_recording is False (AppSpec).
C9_SessionEndStopsRecording ==
    appPc = "raised" => ~is_recording

\* C10: the history buffer holds at most 20 blocks, and they are the most
\* recently recorded blocks in their original order (RingSpec).
C10_HistoryIsNewestBlocks ==
    /\ Len(history_buffer) <= HistoryCap
    /\ history_buffer = LastN(recorded, HistoryCap)

\* C10 happens: more blocks were recorded than the history can hold
C10_HistoryOverflowed ==
    Len(recorded) > HistoryCap /\ \E s \in Sessions : closed[s].kind = "emit"

\* C11: after start_realtime_recording the effective overlap is at most
\* 0.9 x the chunk duration; it is 0.9 x the duration when the requested overlap
\* exceeds the duration, and the requested overlap when that is at most
\* 0.9 x the duration (ClampSpec; centiseconds, compared tenfold).
C11_OverlapClamped ==
    stream_dur > 0 =>
        /\ 10 * overlap_seconds <= 9 * stream_dur
        /\ requested_overlap > stream_dur => 10 * overlap_seconds = 9 * stream_dur
        /\ 10 * requested_overlap <= 9 * stream_dur
               => overlap_seconds = requested_overlap

\* C11 happens: a requested overlap longer than the duration was clamped
C11_LongOverlapClamped ==
    /\ stream_dur > 0
    /\ requested_overlap > stream_dur
    /\ overlap_seconds < requested_overlap

\* C20: a close made with force_process true happens only when at least
\* 2 x force_process_interval seconds have passed since the last emitted segment
\* (or since the start of the session); the buffer it closes is non-empty.
C20_ForcedOnlyAfterLongStall ==
    \A s \in Sessions :
        (closed[s].kind # "none" /\ force_process[s])
            => closed[s].since_emit >= 2 * force_process_interval

\* the merge the last call of process_chunk made: the texts it started from
\* (after the trim), the words of its fragment, and the prefix lengths from 3
\* to 10 words that match the end of the transcription it started from
MergedFrom == last_chunk.trimmed[1]
MergedWords == Split(last_chunk.text)
MatchedPrefixes ==
    {i \in OverlapMinWords .. Min(Len(MergedWords), OverlapRangeStop) :
        EndsWith(Strip(MergedFrom), Join(SubSeq(MergedWords, 1, i)))}
\* a fragment of more than 3 words was merged into a non-empty transcription
LongMerge ==
    /\ last_chunk.translated
    /\ ~first_run.ran
    /\ MergedFrom # <<>>
    /\ Len(MergedWords) > ShortFragmentWords

\* C12: when a fragment of more than 3 words is merged into a non-empty
\* transcription and a prefix of 3 to 10 of its words matches the end of the
\* transcription, the transcription grows by one space and the fragment's words
\* after a matched prefix: the matched words are not written twice.
C12_MatchedPrefixNotDuplicated ==
    (LongMerge /\ MatchedPrefixes # {})
        => \E i \in MatchedPrefixes :
               current_transcription
                   = MergedFrom \o <<" ">> \o Join(WordsFrom(MergedWords, i))

\* the longest of the matching prefix lengths
LongestMatch == CHOOSE i \in MatchedPrefixes : \A j \in MatchedPrefixes : i >= j

\* C13: when prefixes of several lengths between 3 and 10 words match the end
\* of the transcription, the text appended is one space and the fragment's
\* words after the longest matching prefix.
C13_LongestPrefixElided ==
    (LongMerge /\ Cardinality(MatchedPrefixes) >= 2)
        => current_transcription
               = MergedFrom \o <<" ">> \o Join(WordsFrom(MergedWords, LongestMatch))

\* a fragment of 3 words or fewer was merged into a non-empty transcription
ShortMerge ==
    /\ last_chunk.translated
    /\ ~first_run.ran
    /\ MergedFrom # <<>>
    /\ Len(MergedWords) <= ShortFragmentWords

\* C14: a fragment of 3 words or fewer merged into a non-empty transcription
\* is appended whole after one space, and its translation whole after one
\* space to the translation, also when it repeats the transcription's last words.
C14_ShortFragmentAppendedWhole ==
    ShortMerge =>
        /\ current_transcription = MergedFrom \o <<" ">> \o last_chunk.text
        /\ current_translation
               = last_chunk.trimmed[2] \o <<" ">> \o last_chunk.new_translation

\* C14 happens: a fragment of 3 words that repeats the last 3 words of the
\* transcription was appended whole
C14_ShortDuplicateAppended ==
    /\ ShortMerge
    /\ Len(MergedWords) = ShortFragmentWords
    /\ EndsWith(MergedFrom, last_chunk.text)
    /\ Len(Split(current_transcription)) = Len(Split(MergedFrom)) + Len(MergedWords)

\* C15: merging a fragment of more than 3 words that is the same as the
\* fragment merged just before it adds no word: the words of the transcription
\* after the merge are those before it, whatever the fragment's length.
C15_RepeatedFragmentAbsorbed ==
    (LongMerge /\ last_chunk.text = last_chunk.prev_text)
        => Split(current_transcription) = Split(MergedFrom)

\* the last call of process_chunk got no text from the speech-to-text service
Dropped == last_chunk.stt \in {"error", "empty", "blank"}

\* C16: when transcribe_audio fails, returns "" or returns only whitespace,
\* process_chunk leaves both captions as they were, calls neither the
\* translator nor display_live_caption, and the next call can be made.
C16_NoTextNoChange ==
    Dropped =>
        /\ <<current_transcription, current_translation>> = last_chunk.before
        /\ ~last_chunk.translated
        /\ ~last_chunk.displayed
        /\ chunks < MaxChunks => ENABLED ProcessChunk

\* C16 happens: a whitespace-only text was dropped while the captions held an
\* earlier fragment
C16_BlankDroppedAfterMerge ==
    /\ last_chunk.stt = "blank"
    /\ last_chunk.text # <<>>
    /\ current_transcription # <<>>
    /\ ~last_chunk.translated

\* C17: when translation fails for a fragment that has text, the text merged
\* into the translation for it is the untranslated fragment (not ""), and the
\* fragment is merged into the transcription all the same.
C17_FailedTranslationShowsSource ==
    (last_chunk.translated /\ last_chunk.tl = "error")
        => /\ last_chunk.new_translation = last_chunk.text
           /\ current_transcription # last_chunk.trimmed[1]

\* C18: at the start of each merge process_chunk makes, a transcription of
\* more than 1000 characters is cut to its last 500 characters and the
\* translation to its last 500 as well, so neither is longer than 500 when the
\* fragment is merged; a transcription of 1000 characters or fewer leaves both
\* as they are (TrimSpec).
C18_TrimToLast500 ==
    last_chunk.translated =>
        LET was == last_chunk.before
            cut == last_chunk.trimmed
        IN /\ IF Len(was[1]) > TrimThreshold
              THEN /\ cut[1] = LastN(was[1], TrimKeep)
                   /\ cut[2] = LastN(was[2], TrimKeep)
                   /\ Len(cut[1]) <= TrimKeep
                   /\ Len(cut[2]) <= TrimKeep
              ELSE cut = was
           /\ SubSeq(current_transcription, 1, Len(cut[1])) = cut[1]
           /\ SubSeq(current_translation, 1, Len(cut[2])) = cut[2]

\* C18 happens: a transcription of more than 1000 characters and a translation
\* of more than 500 were both cut to 500 before a fragment was merged
C18_BothCaptionsCut ==
    /\ last_chunk.translated
    /\ Len(last_chunk.before[1]) > TrimThreshold
    /\ Len(last_chunk.before[2]) > TrimKeep
    /\ Len(last_chunk.trimmed[1]) = TrimKeep
    /\ Len(last_chunk.trimmed[2]) = TrimKeep
    /\ Len(current_transcription) > TrimKeep

DiscardingClose ==
    \E s \in Sessions : pc[s] = "lock" /\ closed'[s].kind = "discard"

\* C21: a close that discards its segment as silence leaves last_processed_time
\* as it was; the marker moves only when a segment is emitted.
C21_DiscardKeepsLastProcessed ==
    [][DiscardingClose => last_processed_age' = last_processed_age]_vars

\* C22: a close that discards its segment as silence cuts the active buffer to
\* its last 2 blocks (a buffer of 2 blocks or fewer stays as it is) and leaves
\* the history buffer unchanged.
C22_DiscardKeepsTailOnly ==
    [][DiscardingClose =>
          /\ current_chunk' = IF Len(current_chunk) > TailBlocks
                              THEN LastN(current_chunk, TailBlocks)
                              ELSE current_chunk
          /\ history_buffer' = history_buffer]_vars

\* C22 happens: a discard dropped the oldest frame and kept the last 2 blocks
C22_DiscardDroppedOldest ==
    \E s \in Sessions :
        /\ closed[s].kind = "discard"
        /\ pc[s] = "top"
        /\ Len(current_chunk) = TailBlocks
        /\ current_chunk[1].id > 1
        /\ history_buffer = <<>>

\* a chunk_processor closes the active buffer and emits the segment
EmittingClose ==
    \E s \in Sessions : pc[s] = "lock" /\ closed'[s].kind = "emit"

\* C23: a close that emits its segment appends the blocks of the active buffer,
\* and nothing else, to the history in capture order (the history then keeps
\* its newest 20 blocks), and the next active buffer is the last 2 blocks of
\* the closed one, or empty when the closed one held 2 blocks or fewer.
C23_EmitRecordsActiveBuffer ==
    [][EmittingClose =>
          /\ history_buffer' = LastN(history_buffer \o current_chunk, HistoryCap)
          /\ current_chunk' = IF Len(current_chunk) > TailBlocks
                              THEN LastN(current_chunk, TailBlocks)
                              ELSE <<>>]_vars

\* C23 happens: a second emitting close added its buffer to a history that
\* held the blocks of the first one
C23_SecondEmitRecorded ==
    \E s \in Sessions :
        /\ closed[s].kind = "emit"
        /\ pc[s] = "callback"
        /\ handed = 2
        /\ Len(history_buffer) > Len(current_chunk)
        /\ Len(history_buffer) > TailBlocks

\* C24: every captured frame is consumed once: no frame is recorded into the
\* history buffer twice, whatever the sequence of frames and closes.
C24_FrameRecordedOnce ==
    \A i, j \in 1..Len(history_buffer) :
        i < j => history_buffer[i].id # history_buffer[j].id

\* ------------------------------------------------- C25
\* the blocks the call put before the active buffer
CombinedPrefix ==
    SubSeq(combined.out, 1, Len(combined.out) - Len(combined.chunk))
\* samples in k blocks of the handler the call was made on
SamplesIn(k) == k * BlockSizeAt(combined.rate)
\* the result is a suffix of the history, in its order, followed by the active
\* buffer, and neither buffer was changed
CombinedShape ==
    /\ Len(combined.out) >= Len(combined.chunk)
    /\ combined.out = CombinedPrefix \o combined.chunk
    /\ CombinedPrefix = LastN(combined.history, Len(CombinedPrefix))
    /\ Len(CombinedPrefix) <= Len(combined.history)
    /\ history_buffer = combined.history
    /\ current_chunk = combined.chunk
\* the prefix is the shortest suffix of the history that holds `needed` hundredths
\* of a sample (all of it when it holds less, none without overlap or history)
ShortestSuffixReaching(needed) ==
    LET k == Len(CombinedPrefix) IN
    IF overlap_seconds = 0 \/ combined.history = <<>> THEN k = 0
    ELSE /\ k >= 1
         /\ SamplesIn(k) * 100 >= needed \/ k = Len(combined.history)
         /\ k > 1 => SamplesIn(k - 1) * 100 < needed

C26_TenWordPrefixFound ==
    (LongMerge /\ Len(MergedWords) >= 10 /\ MatchedPrefixes = {10})
        => current_transcription
               = MergedFrom \o <<" ">> \o Join(WordsFrom(MergedWords, 10))

\* ------------------------------------------------- C27
\* the fragment starts with a capital letter and the transcription it is merged
\* into ends a sentence
NewSentence ==
    /\ last_chunk.text[1] \in UpperCase
    /\ MergedFrom[Len(MergedFrom)] \in SentenceEnd
\* both texts grew by the separator and the whole fragment, translated in the
\* second one
AppendedWholeAfter(sep) ==
    /\ current_transcription = MergedFrom \o sep \o last_chunk.text
    /\ current_translation = last_chunk.trimmed[2] \o sep \o last_chunk.new_translation

\* C27: when a fragment of more than 3 words has no prefix of 3 to 10 words that
\* matches the end of the transcription, both texts grow by a line break and the
\* whole fragment (translated, in the translation) if the fragment starts with a
\* capital letter and the transcription ends in . ! or ?, and by a space and the
\* whole fragment otherwise: the same separator in both.
C27_SeparatorBySentence ==
    (LongMerge /\ MatchedPrefixes = {})
        => IF NewSentence THEN AppendedWholeAfter(<<"\n">>)
           ELSE AppendedWholeAfter(<<" ">>)

\* C27 witness: a capitalised fragment was put on a new line after a full stop,
\* in both texts.
C27_NewLineStarted ==
    /\ LongMerge
    /\ MatchedPrefixes = {}
    /\ NewSentence
    /\ last_chunk.tl = "ok"
    /\ current_transcription[Len(MergedFrom) + 1] = "\n"
    /\ current_translation[Len(last_chunk.trimmed[2]) + 1] = "\n"

\* ------------------------------------------------- C28
\* C28: every call of transcribe_audio in real-time mode sends its segment to
\* the speech-to-text service; no "" is returned for a segment that was not sent.
C28_EverySegmentSent == stt_call.ran => stt_call.sent

\* ------------------------------------------------- C29
\* the segments whose chunk_callback has not returned yet
InFlight == {c[1] : c \in calls}

\* C29: a segment file exists only while its segment is with chunk_callback (the
\* file of a silent segment is gone when the close ends, the file of an emitted
\* one when chunk_callback has returned or raised), so at most one file exists
\* at any time and none when no call is in progress.
C29_SegmentFilesDeleted ==
    /\ files = InFlight
    /\ Cardinality(files) <= 1
    /\ (\A s \in Sessions : pc[s] # "callback") => files = {}

\* ------------------------------------------------- C30
\* every chunk_processor and every watchdog that was started has left its loop
LoopsEnded ==
    \A s \in Sessions : pc[s] \in {"none", "done"} /\ wpc[s] \in {"none", "done"}

\* C30: once a started session has is_recording = False, the processor loop and
\* the watchdog loop both end (threads are scheduled, the clock moves, a
\* collaborator call in progress returns).
C30_LoopsEndAfterStop == (starts > 0 /\ ~is_recording) ~> LoopsEnded

\* C30 witness: a session that handed a segment to chunk_callback was stopped and
\* both of its loops have ended.
C30_StoppedAfterSegment ==
    /\ starts > 0
    /\ ~is_recording
    /\ handed > 0
    /\ pc[1] = "done"
    /\ wpc[1] = "done"

\* ------------------------------------------------- C31
\* the blocks of the segment a close assembles: chunk_data of chunk_processor
SegmentBlocks ==
    combine_chunks_with_overlap(history_buffer, current_chunk, overlap_seconds)
\* the blocks are in capture order and none of them is there twice
InCaptureOrder(blocks) ==
    \A i, j \in 1..Len(blocks) : i < j => blocks[i].id < blocks[j].id

\* C31: the blocks of every emitted segment are in strictly increasing capture
\* order, none twice: the history prefix ends before the first block of the
\* active buffer, also after a close that kept a 2-block tail.
C31_SegmentInCaptureOrder ==
    [][EmittingClose => InCaptureOrder(SegmentBlocks)]_vars

\* ------------------------------------------------- C32
\* C32: every segment handed to chunk_callback was closed from an active buffer
\* that held at least one block, and ends with the blocks of that buffer, also
\* when the close was forced or signalled by the watchdog.
C32_EmittedFromFrames ==
    [][EmittingClose =>
          /\ Len(current_chunk) > 0
          /\ LastN(SegmentBlocks, Len(current_chunk)) = current_chunk]_vars

\* C32 witness: a forced close emitted a segment.
C32_ForcedCloseEmitted ==
    \E s \in Sessions :
        /\ pc[s] = "callback"
        /\ closed[s].kind = "emit"
        /\ force_process[s]
        /\ closed[s].sigs = {}

\* ------------------------------------------------- C33
\* chunk_ready is set in a session that is recording
SignalPending == is_recording /\ chunk_ready
\* a chunk_processor has cleared a set chunk_ready and, in the same hold of the
\* lock, decided about the whole active buffer
SignalClosed ==
    \E s \in Sessions : closed[s].kind # "none" /\ closed[s].sigs # {}

\* C33: a chunk_ready set by the capture callback or the watchdog in a live
\* session leads to a close decision of the processor that took this signal,
\* on the buffer with every frame appended before it, or to the session's stop.
C33_SignalLeadsToClose == SignalPending ~> (SignalClosed \/ ~is_recording)

\* C33 witness: the watchdog's signal was taken by a close of the processor.
C33_WatchdogSignalClosed ==
    \E s \in Sessions :
        /\ is_recording
        /\ closed[s].kind # "none"
        /\ "watchdog" \in closed[s].sigs
        /\ ~chunk_ready

\* ------------------------------------------------- C34
\* C34: a call of transcribe_audio skips the service only after more than 3
\* results without a text in a row since the last text, that text being less
\* than 5 s old; a skip leaves empty_count as it was, a text sets it to 0, and
\* after reset_state (or __init__) no call is skipped before a text was obtained.
C34_SkipOnlyAfterRecentText ==
    stt_call.ran =>
        /\ stt_call.skipped =>
               /\ stt_call.past.empties > SkipEmptyCount
               /\ stt_call.past.text_seen
               /\ stt_call.past.text_age < SkipWindow
               /\ stt_call.count_after = stt_call.count_before
        /\ HasText(stt_call.result) => stt_call.count_after = 0
        /\ ~stt_call.past.text_seen => ~stt_call.skipped

\* C34 witness: a call was skipped after a text and four results without one.
C34_CallSkipped ==
    /\ stt_call.ran
    /\ stt_call.skipped
    /\ stt_call.past.empties = SkipEmptyCount + 1
    /\ stt_call.count_after = SkipEmptyCount + 1

====
